---- MODULE Spec2Model ----
(***************************************************************************)
(* Realtime execution-update channel (class ExecutionWebSocket, singleton  *)
(* executionWebSocket) together with the browser objects it drives          *)
(* (WebSocket instances, setTimeout timers) and the React hook              *)
(* useExecutionWebSocket that adapts it to UI state; the request client     *)
(* (ApiClient.request); and the view ExecuteView with its generate and      *)
(* execute handlers.                                                        *)
(*                                                                          *)
(* Every action is one turn of the single-threaded event loop: a public     *)
(* method call, or the delivery of one socket event or timer to the handler *)
(* the class registered, run to completion.                                 *)
(***************************************************************************)
EXTENDS Integers, Sequences, FiniteSets

\* ---------------------------------------------------------------- bounds
MaxConnects == 2      \* connect() calls in one run (one callback set each)
MaxSockets == 3       \* WebSocket objects created in one run
MaxCalls == 2         \* ApiClient.request calls in one run
MaxSteps == 2         \* entries of the hook's steps list that are followed
MaxScripts == 2       \* scripts generated in one run of ExecuteView
MaxExecutes == 2      \* handleExecute runs in one run of ExecuteView

\* ------------------------------------------------------- program constants
maxReconnectAttempts == 3
BaseDelay == 1000
MaxDelay == 10000
CloseNormal == 1000

VARIABLES
    ws,                 \* this.ws: id of the socket held, 0 = null
    executionId,        \* this.executionId, "" = null
    callbacks,          \* this.callbacks: id of the callback set, 0 = {}
    reconnectAttempts,  \* this.reconnectAttempts
    reconnectTimeout,   \* this.reconnectTimeout: timer handle, 0 = null
    socks,              \* the WebSocket objects created so far
    timers,             \* the setTimeout timers that are pending
    nSubs,              \* callback sets created so far (connect() calls)
    status,             \* the hook's status state
    hist,               \* what happened since the last connect() or open
    done,               \* onExecutionComplete of the callback set held was invoked
    ev,                 \* the handler that ran last and what it did
    req,                \* the ApiClient.request call in progress or settled last
    steps,              \* the hook's steps state (its first entries)
    view                \* ExecuteView: its state, its handlers in flight, the server

vars == <<ws, executionId, callbacks, reconnectAttempts, reconnectTimeout,
          socks, timers, nSubs, status, hist, done, ev, req, steps, view>>

SockIds == DOMAIN socks

\* execution ids passed to connect(); "" stands for null in this.executionId
ExecIds == {"exec-42", "exec#7"}

\* new WebSocket(wsUrl) throws a SyntaxError when the URL has a fragment,
\* which an execution id with a '#' gives it.
CtorThrows(exec) == exec = "exec#7"

ConnectionStatus == {"connecting", "connected", "disconnected", "error"}

\* A socket: readyState (st), whether its error event was delivered, the
\* callback set and execution id stored when it was created. A socket that
\* has delivered its close event delivers nothing more and is kept as Gone.
Gone == [st |-> "closed", err |-> FALSE, sub |-> 0, exec |-> ""]

\* readyState CONNECTING or OPEN: the socket is live
Live(k) == socks[k].st \in {"connecting", "open"}

\* ---------------------------------------------------------------- frames
Steps == {"1", "2"}
NoFrame == [type |-> "", data |-> ""]

\* The text frames the server may send: well-formed JSON of the four shapes
\* the router distinguishes, the JSON text null, and text that is not JSON.
RawFrames ==
    [type : {"step_complete"}, data : Steps]
      \cup [type : {"execution_complete"}, data : {"PASS"}]
      \cup [type : {"error"}, data : {"boom", ""}]
      \cup [type : {"heartbeat", "<null>", "<not json>"}, data : {""}]

\* a member that the frame does not have reads as undefined
Missing == "<undefined>"

\* Frames that are JSON objects with a known type and no data member.
ShapelessFrames ==
    [type : {"step_complete", "execution_complete", "error"}, data : {Missing}]

\* JSON.parse(event.data) followed by the read of message.type: both throw
\* into the catch of ws.onmessage.
ParseThrows(raw) == raw.type \in {"<null>", "<not json>"}

\* ---------------------------------------------------------------- delay
RECURSIVE Pow2(_)
Pow2(n) == IF n = 0 THEN 1 ELSE 2 * Pow2(n - 1)

Min(a, b) == IF a < b THEN a ELSE b

\* the backoff had the exponent been the attempts made before this one
DelayFromZero(n) == Min(BaseDelay * Pow2(n - 1), MaxDelay)

\* Math.min(1000 * Math.pow(2, this.reconnectAttempts), 10000), computed
\* after the increment of the counter to n
Delay(n) == Min(BaseDelay * Pow2(n), MaxDelay)

\* ------------------------------------------------------- callback delivery
\* this.callbacks.onX?.(arg): a call is made only when the set has the member
Call(cb, name, arg) == IF cb = 0 THEN <<>> ELSE << <<name, arg>> >>

\* the hook's onConnectionChange is setStatus: the last status delivered wins
RECURSIVE LastStatus(_, _)
LastStatus(calls, old) ==
    IF calls = <<>> THEN old
    ELSE LET c == calls[Len(calls)]
         IN  IF c[1] = "onConnectionChange" THEN c[2]
             ELSE LastStatus(SubSeq(calls, 1, Len(calls) - 1), old)

\* The record of a handler run: the operation, the socket or timer it ran
\* for, the callback set it called and the calls in order, the frame
\* received, the close code or timer delay. tick flips when a run repeats the
\* previous one exactly, so that the repetition is a step of its own.
Ev(op, k, cb, calls, frame, num) ==
    LET e == [op |-> op, sock |-> k, cb |-> cb, calls |-> calls,
              frame |-> frame, num |-> num, tick |-> 0]
    IN  IF e = [ev EXCEPT !.tick = 0] THEN [e EXCEPT !.tick = 1 - ev.tick] ELSE e

Cap(n) == Min(n, maxReconnectAttempts + 1)

\* hist counts, since the last connect() or socket open: the reconnect
\* timers set (sched), the timers that fired into a connection attempt after
\* the first of them was set (fired), and the abnormal closes in a row that a
\* subscription saw (closes).
Fresh == [sched |-> 0, fired |-> 0, closes |-> 0]

\* ------------------------------------------------------- request client
\* API_CONFIG.TIMEOUT, copied to this.timeout by the constructor
TIMEOUT == 30000

\* the methods get, post, put and delete pass to request()
Methods == {"GET", "POST", "PUT", "DELETE"}

\* HTTP status codes of the responses the server may send
HttpStatuses == {200, 204, 404, 408, 500}

\* response.ok
ResponseOk(code) == code >= 200 /\ code <= 299

\* response.statusText
StatusText(code) ==
    CASE code = 200 -> "OK"
      [] code = 204 -> "No Content"
      [] code = 404 -> "Not Found"
      [] code = 408 -> "Request Timeout"
      [] OTHER -> "Internal Server Error"

\* Response bodies: empty, a JSON object that is a result, a JSON object that
\* is an error payload, a JSON object with a detail only, the JSON text null,
\* and text that is not JSON.
Bodies ==
    {"", "{\"id\":\"p1\"}", "{\"error\":\"Not found\",\"detail\":\"no such project\"}",
     "{\"detail\":\"bad\"}", "null", "<html>"}

\* A JavaScript value as far as request() looks into it: its kind, and the
\* members id, error and detail ("" is undefined).
JsValue(kind, id, error, detail) ==
    [kind |-> kind, id |-> id, error |-> error, detail |-> detail]

Undefined == JsValue("undefined", "", "", "")
EmptyObject == JsValue("object", "", "", "")

\* JSON.parse(text): ok is FALSE when it throws a SyntaxError
JsonParse(text) ==
    CASE text = "{\"id\":\"p1\"}" ->
            [ok |-> TRUE, val |-> JsValue("object", "p1", "", "")]
      [] text = "{\"error\":\"Not found\",\"detail\":\"no such project\"}" ->
            [ok |-> TRUE, val |-> JsValue("object", "", "Not found", "no such project")]
      [] text = "{\"detail\":\"bad\"}" ->
            [ok |-> TRUE, val |-> JsValue("object", "", "", "bad")]
      [] text = "null" -> [ok |-> TRUE, val |-> JsValue("null", "", "", "")]
      [] OTHER -> [ok |-> FALSE, val |-> Undefined]

\* An error thrown inside the try block: its name and message, and for an
\* ApiRequestError its status and data.
Thrown(name, message, code, data) ==
    [name |-> name, message |-> message, status |-> code, data |-> data]

\* new ApiRequestError(message, status, data)
ApiRequestError(message, code, data) == Thrown("ApiRequestError", message, code, data)

\* had the catch block let through every error but an AbortError
CatchAbortOnly(error) ==
    IF error.name = "AbortError" THEN ApiRequestError("Request timeout", 408, Undefined)
    ELSE error

\* The catch block of request(): the error the call fails with.
Catch(error) ==
    IF error.name = "ApiRequestError" THEN error
    ELSE IF error.name = "AbortError" THEN ApiRequestError("Request timeout", 408, Undefined)
    ELSE ApiRequestError(error.message, 0, Undefined)

\* The outcome of a call: none yet, a value it resolved with, or the error it
\* was rejected with.
NoOutcome == [kind |-> "none", value |-> Undefined, error |-> Thrown("", "", 0, Undefined)]

\* No submission to executeTestMutation yet.
NoSubmission == [id |-> 0, shown |-> 0, reused |-> FALSE]

\* ExecuteView after its first render: no project selected (config.project
\* is null), generatedCode and savedTestCaseId null (0), no mutation
\* pending. `cases` are the test cases the server has saved, each with the
\* script it was saved with, its id being its index; `runs` are the
\* handleExecute calls that wait for a mutation; `sub` is the last call of
\* executeTestMutation: the test case id passed, the script shown then, and
\* whether the id was the one kept in savedTestCaseId.
NoView ==
    [project |-> FALSE, generatedCode |-> 0, savedTestCaseId |-> 0,
     generating |-> FALSE, scripts |-> 0, clicks |-> 0,
     cases |-> <<>>, runs |-> {}, sub |-> NoSubmission]

\* No call has been made: the state of the client after construction.
NoRequest ==
    [phase |-> "idle", method |-> "", n |-> 0, fetches |-> 0, timer |-> "none",
     aborts |-> 0, elapsed |-> FALSE, http |-> 0, body |-> "", read |-> FALSE,
     outcome |-> NoOutcome]

\* ------------------------------------------------------------------ Init
Init ==
    /\ ws = 0
    /\ executionId = ""
    /\ callbacks = 0
    /\ reconnectAttempts = 0
    /\ reconnectTimeout = 0
    /\ socks = <<>>
    /\ timers = {}
    /\ nSubs = 0
    /\ status = "disconnected"
    /\ hist = Fresh
    /\ done = FALSE
    /\ ev = [op |-> "init", sock |-> 0, cb |-> 0, calls |-> <<>>,
             frame |-> NoFrame, num |-> 0, tick |-> 0]
    /\ req = NoRequest
    /\ steps = <<>>
    /\ view = NoView

\* --------------------------------------------------- establishConnection
\* Runs with the execution id `exec` and the callback set `cb` that the
\* caller has just stored (connect) or that are stored (timer). `num` is the
\* delay of the timer that fired (0 on connect), `max` the number of sockets
\* a run may create.
EstablishConnection(op, exec, cb, num, max) ==
    IF exec = ""
    THEN /\ UNCHANGED <<ws, socks, status>>
         /\ ev' = Ev(op, 0, cb, <<>>, NoFrame, num)
    ELSE IF CtorThrows(exec)
    THEN LET calls == Call(cb, "onConnectionChange", "connecting")
                      \o Call(cb, "onConnectionChange", "error")
                      \o Call(cb, "onError", "Failed to establish WebSocket connection")
         IN  /\ UNCHANGED <<ws, socks>>
             /\ status' = LastStatus(calls, status)
             /\ ev' = Ev(op, 0, cb, calls, NoFrame, num)
    ELSE LET k == Len(socks) + 1
             calls == Call(cb, "onConnectionChange", "connecting")
         IN  /\ k <= max
             /\ socks' = Append(socks,
                            [st |-> "connecting", err |-> FALSE, sub |-> cb, exec |-> exec])
             /\ ws' = k
             /\ status' = LastStatus(calls, status)
             /\ ev' = Ev(op, k, cb, calls, NoFrame, num)

\* ---------------------------------------------------------------- connect
\* The hook's connect(id): a fresh callback set, then
\* executionWebSocket.connect(id, callbacks).
ConnectUpTo(maxC, maxS, id) ==
    /\ nSubs < maxC
    /\ nSubs' = nSubs + 1
    /\ executionId' = id
    /\ callbacks' = nSubs + 1
    /\ reconnectAttempts' = 0
    /\ steps' = <<>>
    /\ EstablishConnection("connect", id, nSubs + 1, 0, maxS)
    /\ hist' = Fresh
    /\ done' = FALSE
    /\ UNCHANGED <<reconnectTimeout, timers, req, view>>

Connect(id) == ConnectUpTo(MaxConnects, MaxSockets, id)

\* ------------------------------------------------------------- disconnect
\* clearTimeout(this.reconnectTimeout): the timer with that handle, if it is
\* still pending, is cancelled; a timer that stays pending is marked as one
\* that was pending when disconnect() ran.
TimersAfterDisconnect ==
    {[t EXCEPT !.old = TRUE] : t \in {u \in timers : u.id # reconnectTimeout}}

\* this.ws.close(1000, 'Client disconnect')
SocksAfterDisconnect ==
    IF ws # 0 /\ socks[ws].st \in {"connecting", "open"}
    THEN [socks EXCEPT ![ws].st = "closing"]
    ELSE socks

\* The body of disconnect().
DisconnectFields ==
    /\ timers' = TimersAfterDisconnect
    /\ reconnectTimeout' = 0
    /\ socks' = SocksAfterDisconnect
    /\ ws' = 0
    /\ executionId' = ""
    /\ callbacks' = 0
    /\ reconnectAttempts' = maxReconnectAttempts
    /\ done' = FALSE

\* The hook's disconnect(): executionWebSocket.disconnect(), then
\* setStatus('disconnected').
Disconnect ==
    /\ DisconnectFields
    /\ status' = "disconnected"
    /\ ev' = Ev("disconnect", 0, 0, <<>>, NoFrame, 0)
    /\ UNCHANGED <<nSubs, hist, req, steps, view>>

\* The hook's unmount cleanup: executionWebSocket.disconnect() alone.
Unmount ==
    /\ DisconnectFields
    /\ ev' = Ev("unmount", 0, 0, <<>>, NoFrame, 0)
    /\ UNCHANGED <<nSubs, status, hist, req, steps, view>>

\* ----------------------------------------------------------------- onopen
\* had the handler left the reconnect counter as it was
SocketOpenKeepsCounter(k) ==
    /\ socks[k].st = "connecting"
    /\ ~socks[k].err
    /\ socks' = [socks EXCEPT ![k].st = "open"]
    /\ LET calls == Call(callbacks, "onConnectionChange", "connected")
       IN  /\ status' = LastStatus(calls, status)
           /\ ev' = Ev("open", k, callbacks, calls, NoFrame, 0)
    /\ hist' = Fresh
    /\ UNCHANGED <<ws, executionId, callbacks, reconnectAttempts, reconnectTimeout,
                   timers, nSubs, done, req, steps, view>>

SocketOpen(k) ==
    /\ socks[k].st = "connecting"
    /\ ~socks[k].err
    /\ socks' = [socks EXCEPT ![k].st = "open"]
    /\ reconnectAttempts' = 0
    /\ LET calls == Call(callbacks, "onConnectionChange", "connected")
       IN  /\ status' = LastStatus(calls, status)
           /\ ev' = Ev("open", k, callbacks, calls, NoFrame, 0)
    /\ hist' = Fresh
    /\ UNCHANGED <<ws, executionId, callbacks, reconnectTimeout, timers, nSubs, done, req, steps, view>>

\* ---------------------------------------------------------------- onerror
\* had the handler closed the socket itself
SocketErrorThenClose(k) ==
    /\ socks[k].st \in {"connecting", "open", "closing"}
    /\ ~socks[k].err
    /\ socks' = [socks EXCEPT ![k].err = TRUE, ![k].st = "closing"]
    /\ LET calls == Call(callbacks, "onConnectionChange", "error")
                    \o Call(callbacks, "onError", "WebSocket connection error")
       IN  /\ status' = LastStatus(calls, status)
           /\ ev' = Ev("error", k, callbacks, calls, NoFrame, 0)
    /\ UNCHANGED <<ws, executionId, callbacks, reconnectAttempts, reconnectTimeout,
                   timers, nSubs, hist, done, req, steps, view>>

\* The browser delivers a socket's error event once, before its close event
\* and after nothing else of that socket.
SocketError(k) ==
    /\ socks[k].st \in {"connecting", "open", "closing"}
    /\ ~socks[k].err
    /\ socks' = [socks EXCEPT ![k].err = TRUE]
    /\ LET calls == Call(callbacks, "onConnectionChange", "error")
                    \o Call(callbacks, "onError", "WebSocket connection error")
       IN  /\ status' = LastStatus(calls, status)
           /\ ev' = Ev("error", k, callbacks, calls, NoFrame, 0)
    /\ UNCHANGED <<ws, executionId, callbacks, reconnectAttempts, reconnectTimeout,
                   timers, nSubs, hist, done, req, steps, view>>

\* -------------------------------------------------------------- onmessage
\* had the router torn the subscription down on a server error frame too
HandleMessageErrorFatal(k, message, throws) ==
    IF message.type = "execution_complete"
    THEN /\ ev' = Ev("message", k, callbacks,
                     Call(callbacks, "onExecutionComplete", message.data), message, 0)
         /\ IF throws
            THEN /\ done' = TRUE
                 /\ UNCHANGED <<ws, executionId, callbacks, reconnectAttempts,
                                reconnectTimeout, socks, timers>>
            ELSE DisconnectFields
    ELSE IF message.type = "error"
    THEN /\ ev' = Ev("message", k, callbacks,
                     IF message.data = Missing THEN <<>>
                     ELSE Call(callbacks, "onError",
                               IF message.data # "" THEN message.data ELSE "Unknown error"),
                     message, 0)
         /\ DisconnectFields
    ELSE /\ ev' = Ev("message", k, callbacks,
                     IF message.type = "step_complete"
                     THEN Call(callbacks, "onStepComplete", message.data) ELSE <<>>,
                     message, 0)
         /\ UNCHANGED <<ws, executionId, callbacks, reconnectAttempts, reconnectTimeout,
                        socks, timers, done>>

\* handleMessage(message) for a frame that parsed. `throws` is whether the
\* caller's onExecutionComplete throws: the exception leaves handleMessage
\* before this.disconnect() and is swallowed by the catch of ws.onmessage.
HandleMessage(k, message, throws) ==
    IF message.type = "step_complete"
    THEN /\ ev' = Ev("message", k, callbacks,
                     Call(callbacks, "onStepComplete", message.data), message, 0)
         /\ UNCHANGED <<ws, executionId, callbacks, reconnectAttempts, reconnectTimeout,
                        socks, timers, done>>
    ELSE IF message.type = "execution_complete"
    THEN /\ ev' = Ev("message", k, callbacks,
                     Call(callbacks, "onExecutionComplete", message.data), message, 0)
         /\ IF throws
            THEN /\ done' = TRUE
                 /\ UNCHANGED <<ws, executionId, callbacks, reconnectAttempts,
                                reconnectTimeout, socks, timers>>
            ELSE DisconnectFields
    ELSE IF message.type = "error"
    THEN /\ ev' = Ev("message", k, callbacks,
                     \* message.data.message throws when data is undefined
                     IF message.data = Missing THEN <<>>
                     ELSE Call(callbacks, "onError",
                               IF message.data # "" THEN message.data ELSE "Unknown error"),
                     message, 0)
         /\ UNCHANGED <<ws, executionId, callbacks, reconnectAttempts, reconnectTimeout,
                        socks, timers, done>>
    ELSE /\ ev' = Ev("message", k, callbacks, <<>>, message, 0)
         /\ UNCHANGED <<ws, executionId, callbacks, reconnectAttempts, reconnectTimeout,
                        socks, timers, done>>

\* ws.onmessage: the browser delivers message events of an OPEN socket only.
SocketMessageUpTo(maxSteps, k, raw, throws) ==
    /\ socks[k].st = "open"
    /\ ~socks[k].err
    \* only a callback that is called can throw
    /\ throws => (raw.type = "execution_complete" /\ callbacks # 0)
    /\ IF ParseThrows(raw)
       THEN /\ ev' = Ev("message", k, callbacks, <<>>, raw, 0)
            /\ UNCHANGED <<ws, executionId, callbacks, reconnectAttempts, reconnectTimeout,
                           socks, timers, done>>
       ELSE HandleMessage(k, raw, throws)
    \* the hook's onStepComplete: setSteps((prev) => [...prev, step])
    /\ steps' = IF /\ ~ParseThrows(raw)
                   /\ raw.type = "step_complete"
                   /\ callbacks # 0
                   /\ Len(steps) < maxSteps
                THEN Append(steps, [step |-> raw.data, exec |-> socks[k].exec])
                ELSE steps
    /\ UNCHANGED <<nSubs, status, hist, req, view>>

\* The specifications of the channel follow none of the entries of the
\* hook's steps list.
SocketMessage(k, raw, throws) == SocketMessageUpTo(0, k, raw, throws)

\* ---------------------------------------------------------------- onclose
\* the codes of close events: abnormal closure (1006), or normal closure
CloseCodes == {1006, CloseNormal}

\* the condition had the budget been one attempt shorter
ShouldReconnectOneShort(exec, attempts) ==
    exec # "" /\ attempts < maxReconnectAttempts - 1

\* this.executionId && this.reconnectAttempts < this.maxReconnectAttempts
ShouldReconnect(exec, attempts) == exec # "" /\ attempts < maxReconnectAttempts

\* ws.onclose runs handleDisconnect(). The timer it sets is identified by the
\* socket whose close event set it; n is the number of timers set since the
\* last connect() or open, this one included.
ClosesAfter(code) ==
    IF executionId = "" THEN hist.closes
    ELSE IF code = CloseNormal THEN 0
    ELSE Cap(hist.closes + 1)

SocketClose(k, code) ==
    /\ socks[k].st \in {"connecting", "open", "closing"}
    /\ socks' = [socks EXCEPT ![k] = Gone]
    /\ LET calls == Call(callbacks, "onConnectionChange", "disconnected")
       IN  /\ status' = LastStatus(calls, status)
           /\ ev' = Ev("close", k, callbacks, calls, NoFrame, code)
    /\ IF ShouldReconnect(executionId, reconnectAttempts)
       THEN /\ reconnectAttempts' = reconnectAttempts + 1
            /\ timers' = timers \cup
                   {[id |-> k, n |-> hist.sched + 1,
                     delay |-> Delay(reconnectAttempts + 1), old |-> FALSE]}
            /\ reconnectTimeout' = k
            /\ hist' = [hist EXCEPT !.sched = Cap(@ + 1), !.closes = ClosesAfter(code)]
       ELSE /\ UNCHANGED <<reconnectAttempts, timers, reconnectTimeout>>
            /\ hist' = [hist EXCEPT !.closes = ClosesAfter(code)]
    /\ UNCHANGED <<ws, executionId, callbacks, nSubs, done, req, steps, view>>

\* ------------------------------------------------------------ timer fires
\* A timer is due before every timer set later with an equal or longer delay.
Due(t) == \A u \in timers : u.id < t.id => u.delay > t.delay

\* The timer callback: this.establishConnection().
TimerFireUpTo(maxS, t) ==
    /\ Due(t)
    /\ timers' = timers \ {t}
    /\ EstablishConnection("timer", executionId, callbacks, t.delay, maxS)
    /\ hist' = IF executionId = "" \/ hist.sched = 0 THEN hist
               ELSE [hist EXCEPT !.fired = Cap(@ + 1)]
    /\ UNCHANGED <<executionId, callbacks, reconnectAttempts, reconnectTimeout,
                   nSubs, done, req, steps, view>>

TimerFire(t) == TimerFireUpTo(MaxSockets, t)

\* ------------------------------------------------------------------ Next
Next ==
    \/ \E id \in ExecIds : Connect(id)
    \/ Disconnect
    \/ Unmount
    \/ \E k \in SockIds : SocketOpen(k)
    \/ \E k \in SockIds : SocketError(k)
    \/ \E k \in SockIds, raw \in RawFrames, throws \in BOOLEAN : SocketMessage(k, raw, throws)
    \/ \E k \in SockIds, code \in CloseCodes : SocketClose(k, code)
    \/ \E t \in timers : TimerFire(t)

Spec == Init /\ [][Next]_vars

\* A run on which the server sends no frames, with one more connect() and
\* one more socket than Next allows.
ConnectWide(id) == ConnectUpTo(MaxConnects + 1, MaxSockets + 1, id)

TimerFireWide(t) == TimerFireUpTo(MaxSockets + 1, t)

NextQuiet ==
    \/ \E id \in ExecIds : ConnectWide(id)
    \/ Disconnect
    \/ Unmount
    \/ \E k \in SockIds : SocketOpen(k)
    \/ \E k \in SockIds : SocketError(k)
    \/ \E k \in SockIds, code \in CloseCodes : SocketClose(k, code)
    \/ \E t \in timers : TimerFireWide(t)

SpecQuiet == Init /\ [][NextQuiet]_vars

\* A run on which the server sends no frames, long enough for a reconnect
\* budget to be used up after a second connect(): three more sockets than
\* Next allows.
ConnectLong(id) == ConnectUpTo(MaxConnects, MaxSockets + 3, id)

TimerFireLong(t) == TimerFireUpTo(MaxSockets + 3, t)

NextLong ==
    \/ \E id \in ExecIds : ConnectLong(id)
    \/ Disconnect
    \/ Unmount
    \/ \E k \in SockIds : SocketOpen(k)
    \/ \E k \in SockIds : SocketError(k)
    \/ \E k \in SockIds, code \in CloseCodes : SocketClose(k, code)
    \/ \E t \in timers : TimerFireLong(t)

SpecLong == Init /\ [][NextLong]_vars

\* A run on which the server sends no frames, long enough for the socket of
\* the third reconnect attempt to close: one more socket than Next allows.
ConnectRetry(id) == ConnectUpTo(MaxConnects, MaxSockets + 1, id)

TimerFireRetry(t) == TimerFireUpTo(MaxSockets + 1, t)

NextRetry ==
    \/ \E id \in ExecIds : ConnectRetry(id)
    \/ Disconnect
    \/ Unmount
    \/ \E k \in SockIds : SocketOpen(k)
    \/ \E k \in SockIds : SocketError(k)
    \/ \E k \in SockIds, code \in CloseCodes : SocketClose(k, code)
    \/ \E t \in timers : TimerFireRetry(t)

SpecRetry == Init /\ [][NextRetry]_vars

\* The stream before its terminal frame: the server sends every frame but
\* execution_complete.
StreamFrames == {f \in RawFrames : f.type # "execution_complete"}

NextStream ==
    \/ \E id \in ExecIds : Connect(id)
    \/ Disconnect
    \/ Unmount
    \/ \E k \in SockIds : SocketOpen(k)
    \/ \E k \in SockIds : SocketError(k)
    \/ \E k \in SockIds, raw \in StreamFrames : SocketMessage(k, raw, FALSE)
    \/ \E k \in SockIds, code \in CloseCodes : SocketClose(k, code)
    \/ \E t \in timers : TimerFire(t)

SpecStream == Init /\ [][NextStream]_vars

\* The stream with frames that lack their data: the server sends every frame
\* but a well-formed execution_complete.
ShapeFrames == StreamFrames \cup ShapelessFrames

NextShape ==
    \/ \E id \in ExecIds : Connect(id)
    \/ Disconnect
    \/ Unmount
    \/ \E k \in SockIds : SocketOpen(k)
    \/ \E k \in SockIds : SocketError(k)
    \/ \E k \in SockIds, raw \in ShapeFrames : SocketMessage(k, raw, FALSE)
    \/ \E k \in SockIds, code \in CloseCodes : SocketClose(k, code)
    \/ \E t \in timers : TimerFire(t)

SpecShape == Init /\ [][NextShape]_vars

\* A run of a hook that follows two executions whose ids give well-formed
\* URLs, on which the server sends step updates only and the first MaxSteps
\* entries of the hook's steps list are followed.
StepExecIds == {"exec-42", "exec-43"}

StepFrames == {f \in RawFrames : f.type = "step_complete"}

HookConnect(id) == ConnectUpTo(MaxConnects, MaxSockets, id)

HookStep(k, raw) == SocketMessageUpTo(MaxSteps, k, raw, FALSE)

NextSteps ==
    \/ \E id \in StepExecIds : HookConnect(id)
    \/ Disconnect
    \/ Unmount
    \/ \E k \in SockIds : SocketOpen(k)
    \/ \E k \in SockIds, raw \in StepFrames : HookStep(k, raw)
    \/ \E k \in SockIds, code \in CloseCodes : SocketClose(k, code)
    \/ \E t \in timers : TimerFire(t)

SpecSteps == Init /\ [][NextSteps]_vars

\* ============================================================ ApiClient
\* the variables of the realtime channel, which a request leaves alone
channelVars == <<ws, executionId, callbacks, reconnectAttempts, reconnectTimeout,
                 socks, timers, nSubs, status, hist, done, ev, steps>>

\* return value: the promise of the call resolves
Resolve(r, value) ==
    [r EXCEPT !.phase = "resolved",
              !.outcome = [NoOutcome EXCEPT !.kind = "value", !.value = value]]

\* had the catch block issued the request again instead of failing
RejectThenRetry(r, error) ==
    [r EXCEPT !.phase = "fetching", !.fetches = @ + 1, !.timer = "pending",
              !.http = 0, !.body = ""]

\* An error thrown in the try block: the catch block clears the timer and
\* the promise of the call rejects with Catch(error).
Reject(r, error) ==
    [r EXCEPT !.phase = "rejected",
              !.timer = IF @ = "pending" THEN "cleared" ELSE @,
              !.outcome = [NoOutcome EXCEPT !.kind = "error", !.error = Catch(error)]]

\* request(endpoint, options) up to the await of fetch: a controller, the
\* timeout timer and one fetch call.
Request(method) ==
    /\ req.phase \in {"idle", "resolved", "rejected"}
    /\ req.n < MaxCalls
    /\ req' = [NoRequest EXCEPT !.phase = "fetching", !.method = method,
                                !.n = req.n + 1, !.fetches = 1, !.timer = "pending"]
    /\ UNCHANGED <<channelVars, view>>

\* TIMEOUT ms have passed since the call started. A timer that is pending
\* fires and runs controller.abort(); a timer that was cleared does nothing.
TimeoutElapses ==
    /\ req.phase \in {"fetching", "reading"}
    /\ ~req.elapsed
    /\ req' = IF req.timer = "pending"
              THEN [req EXCEPT !.elapsed = TRUE, !.timer = "fired", !.aborts = @ + 1]
              ELSE [req EXCEPT !.elapsed = TRUE]
    /\ UNCHANGED <<channelVars, view>>

\* fetch resolves with the response head; clearTimeout(timeoutId). A 204
\* response has no body.
FetchResolves(code, body) ==
    /\ req.phase = "fetching"
    /\ req.timer = "pending"
    /\ code = 204 => body = ""
    /\ req' = [req EXCEPT !.phase = "reading", !.timer = "cleared",
                          !.http = code, !.body = body]
    /\ UNCHANGED <<channelVars, view>>

\* fetch rejects: with an AbortError once the signal is aborted; before
\* that with a TypeError (no connection), or with an AbortError when the
\* user agent cancels the load (navigation, stop).
FetchRejects(name) ==
    /\ req.phase = "fetching"
    /\ name \in {"TypeError", "AbortError"}
    /\ req.timer = "fired" => name = "AbortError"
    /\ req' = Reject(req, Thrown(name,
                                 IF name = "TypeError" THEN "Failed to fetch"
                                 ELSE "The operation was aborted.",
                                 0, Undefined))
    /\ UNCHANGED <<channelVars, view>>

\* await response.json().catch(() => ({error: 'Request failed', detail:
\* response.statusText})) with the body `body`; parsed is FALSE when json()
\* rejects.
ErrorData(code, body, parsed) ==
    IF parsed /\ JsonParse(body).ok THEN JsonParse(body).val
    ELSE JsValue("object", "", "Request failed", StatusText(code))

\* The non-ok branch after errorData is there: reading errorData.error of
\* null throws a TypeError.
ThrowForStatus(r, errorData) ==
    IF errorData.kind = "null"
    THEN Reject(r, Thrown("TypeError", "Cannot read properties of null", 0, Undefined))
    ELSE Reject(r, ApiRequestError(IF errorData.error # "" THEN errorData.error
                                   ELSE "Request failed",
                                   r.http, errorData))

\* had the text been parsed without the test for an empty text
ResultOfTextParsed(r, text) ==
    IF JsonParse(text).ok THEN Resolve(r, JsonParse(text).val)
    ELSE Reject(r, Thrown("SyntaxError", "Unexpected end of JSON input", 0, Undefined))

\* if (!text) return {} as T; return JSON.parse(text) as T
ResultOfText(r, text) ==
    IF text = "" THEN Resolve(r, EmptyObject)
    ELSE IF JsonParse(text).ok THEN Resolve(r, JsonParse(text).val)
    ELSE Reject(r, Thrown("SyntaxError", "Unexpected token in JSON", 0, Undefined))

\* The body has been read to its end: response.json() of a non-ok response,
\* response.text() of an ok one, settles.
BodyArrives ==
    /\ req.phase = "reading"
    /\ req' = LET r == [req EXCEPT !.read = TRUE]
              IN  IF ResponseOk(r.http)
                  THEN ResultOfText(r, r.body)
                  ELSE ThrowForStatus(r, ErrorData(r.http, r.body, TRUE))
    /\ UNCHANGED <<channelVars, view>>

\* The connection breaks while the body is read: response.json() or
\* response.text() rejects with a TypeError.
BodyFails ==
    /\ req.phase = "reading"
    /\ req' = IF ResponseOk(req.http)
              THEN Reject(req, Thrown("TypeError", "network error", 0, Undefined))
              ELSE ThrowForStatus(req, ErrorData(req.http, req.body, FALSE))
    /\ UNCHANGED <<channelVars, view>>

NextRequest ==
    \/ \E method \in Methods : Request(method)
    \/ TimeoutElapses
    \/ \E code \in HttpStatuses, body \in Bodies : FetchResolves(code, body)
    \/ \E name \in {"TypeError", "AbortError"} : FetchRejects(name)
    \/ BodyArrives
    \/ BodyFails

SpecRequest == Init /\ [][NextRequest]_vars

\* ========================================================== ExecuteView
\* ConfigurationPanel's onConfigChange={setConfig}: the user picks a project.
SelectProject ==
    /\ ~view.project
    /\ view' = [view EXCEPT !.project = TRUE]
    /\ UNCHANGED <<channelVars, req>>

\* handleGenerate up to its await: it returns at once without a project;
\* the Generate button is disabled while the mutation is pending.
HandleGenerate ==
    /\ view.project
    /\ ~view.generating
    /\ view.scripts < MaxScripts
    /\ view' = [view EXCEPT !.generating = TRUE]
    /\ UNCHANGED <<channelVars, req>>

\* generateScriptMutation resolves with a new script:
\* setGeneratedCode(result.script_code), and nothing else is set.
GenerateResolves ==
    /\ view.generating
    /\ view' = [view EXCEPT !.generating = FALSE,
                            !.scripts = @ + 1,
                            !.generatedCode = view.scripts + 1]
    /\ UNCHANGED <<channelVars, req>>

\* generateScriptMutation rejects: a toast
GenerateRejects ==
    /\ view.generating
    /\ view' = [view EXCEPT !.generating = FALSE]
    /\ UNCHANGED <<channelVars, req>>

\* executeTestMutation.mutateAsync({test_case_id: id}) by the run `run`
Submit(v, run, id, reused) ==
    [v EXCEPT !.sub = [id |-> id, shown |-> v.generatedCode, reused |-> reused],
              !.runs = (@ \ {run}) \cup {[run EXCEPT !.stage = "executing", !.id = id]}]

\* handleExecute up to its first await: it returns at once without a
\* project or a script. Without a saved test case id it calls
\* saveTestCaseMutation with the script of this render; with one it goes
\* on to executeTestMutation with that id.
HandleExecute ==
    /\ view.project
    /\ view.generatedCode # 0
    /\ view.clicks < MaxExecutes
    /\ LET run == [n |-> view.clicks + 1, stage |-> "saving",
                   script |-> view.generatedCode, id |-> 0]
           v == [view EXCEPT !.clicks = @ + 1, !.runs = @ \cup {run}]
       IN  view' = IF view.savedTestCaseId = 0 THEN v
                   ELSE Submit(v, run, view.savedTestCaseId, TRUE)
    /\ UNCHANGED <<channelVars, req>>

\* saveTestCaseMutation resolves: the server has saved a test case with the
\* script passed; setSavedTestCaseId(savedTestCase.id), then
\* executeTestMutation with that id.
SaveResolves(run) ==
    /\ run \in view.runs
    /\ run.stage = "saving"
    /\ LET id == Len(view.cases) + 1
           v == [view EXCEPT !.cases = Append(@, run.script),
                             !.savedTestCaseId = id]
       IN  view' = Submit(v, run, id, FALSE)
    /\ UNCHANGED <<channelVars, req>>

\* saveTestCaseMutation rejects: the catch block shows a toast
SaveRejects(run) ==
    /\ run \in view.runs
    /\ run.stage = "saving"
    /\ view' = [view EXCEPT !.runs = @ \ {run}]
    /\ UNCHANGED <<channelVars, req>>

\* executeTestMutation settles: onExecutionComplete(result) or a toast
ExecuteSettles(run) ==
    /\ run \in view.runs
    /\ run.stage = "executing"
    /\ view' = [view EXCEPT !.runs = @ \ {run}]
    /\ UNCHANGED <<channelVars, req>>

NextView ==
    \/ SelectProject
    \/ HandleGenerate
    \/ GenerateResolves
    \/ GenerateRejects
    \/ HandleExecute
    \/ \E run \in view.runs : SaveResolves(run)
    \/ \E run \in view.runs : SaveRejects(run)
    \/ \E run \in view.runs : ExecuteSettles(run)

SpecView == Init /\ [][NextView]_vars

\* ================================================================ claims
\* the handlers establishConnection registers on a socket
SocketEvents == {"open", "message", "close", "error"}

\* the statuses a handler run delivered through onConnectionChange, in order
Statuses(calls) == SelectSeq(calls, LAMBDA c : c[1] = "onConnectionChange")

\* C1: in every reachable state at most one socket of the instance is open
\* or connecting and at most one reconnect timer is pending.
C1_OneLiveSocketOneTimer ==
    /\ Cardinality({k \in SockIds : Live(k)}) <= 1
    /\ Cardinality(timers) <= 1

\* C2: a socket event invokes callbacks only of the callback set that was
\* supplied by the connect() call the socket was created for.
C2_EventsReachOwnCallbacks ==
    [][(ev'.op \in SocketEvents /\ ev'.calls # <<>>)
          => ev'.cb = socks[ev'.sock].sub]_vars

\* C3: once onExecutionComplete of a callback set has been invoked, no
\* callback of that set is invoked again, whatever frame or socket event
\* arrives (calls reach that set only while the instance holds it).
C3_NoCallbackAfterComplete ==
    [][(ev'.op # "connect" /\ ev'.calls # <<>>) => ~done]_vars

\* C4: every step_complete frame received on a socket of a subscription
\* before execution_complete invokes onStepComplete of that subscription
\* exactly once, with the frame's payload, when it is received.
C4_StepPerFrameInOrder ==
    [][(ev'.op = "message" /\ ev'.frame.type = "step_complete")
          => /\ ev'.cb = socks[ev'.sock].sub
             /\ ev'.calls = << <<"onStepComplete", ev'.frame.data>> >>]_vars

\* C5: after a connection loss, with no open and no connect() in between, at
\* most 3 automatic reconnect attempts are made.
C5_AtMostThreeAttempts == hist.fired <= maxReconnectAttempts

\* C6: the n-th reconnect timer set since the last connect() or open
\* (n = 1, 2, 3) has delay 2000, 4000, 8000 ms, never more than 10000 ms; the
\* first close after a connect() or open sets the 2000 ms timer, and a timer
\* that fires while an execution id is set notifies 'connecting' first.
C6_BackoffDelays ==
    /\ \A t \in timers :
          /\ t.n \in 1..3
          /\ t.delay = <<2000, 4000, 8000>>[t.n]
          /\ t.delay <= 10000
    /\ (ev.op = "close" /\ executionId # "" /\ hist.sched = 1 /\ hist.closes <= 1)
          => \E t \in timers : t.id = ev.sock /\ t.delay = 2000
    /\ (ev.op = "timer" /\ executionId # "")
          => /\ ev.num \in {2000, 4000, 8000}
             /\ ev.calls[1] = <<"onConnectionChange", "connecting">>

\* a close has set the third timer since the last connect() or open
C6_Witness ==
    /\ ev.op = "close"
    /\ \E t \in timers : t.id = ev.sock /\ t.n = 3 /\ t.delay = 8000

C8_DisconnectCancelsTimers ==
    [][\A t \in timers :
          (ev'.op = "timer" /\ t \notin timers' /\ t.old)
              => (ev'.sock = 0 /\ ev'.calls = <<>>)]_vars

\* C9: the close event of a socket that disconnect() closed never sets a
\* reconnect timer, whenever it is delivered.
C9_ClientCloseNeverReconnects ==
    [][(ev'.op = "close" /\ socks[ev'.sock].st = "closing")
          => timers' = timers]_vars

\* C10: a status change delivered through onConnectionChange enters
\* 'connecting' only from 'disconnected' or 'error', or as the first status
\* of a subscription, and enters 'connected' only from 'connecting'.
C10_DefinedTransitions ==
    [][\A i \in 1..Len(Statuses(ev'.calls)) :
          LET to == Statuses(ev'.calls)[i][2]
              from == IF i = 1 THEN status ELSE Statuses(ev'.calls)[i - 1][2]
          IN  /\ (to = "connecting" /\ from # to /\ ~(ev'.op = "connect" /\ i = 1))
                    => from \in {"disconnected", "error"}
              /\ (to = "connected" /\ from # to) => from = "connecting"]_vars

\* C11: every close event of a socket, whatever caused the close, leaves the
\* status 'disconnected' and invokes onConnectionChange('disconnected') of
\* the callback set of the subscription the socket was created for (stated
\* for an instance that has had one subscription only).
C11_CloseNotifiesOwner ==
    [][(nSubs' = 1 /\ ev'.op = "close")
          => /\ status' = "disconnected"
             /\ ev'.cb = socks[ev'.sock].sub
             /\ ev'.calls = << <<"onConnectionChange", "disconnected">> >>]_vars

\* C12: a close event with code 1000 never sets a reconnect timer, and a
\* close event with another code, delivered while an execution id is set and
\* the counter is below the maximum, sets one (stated for an instance that
\* has had one subscription only).
C12_NormalCloseNeverReconnects ==
    [][(nSubs' = 1 /\ ev'.op = "close")
          => /\ ev'.num = CloseNormal => timers' = timers
             /\ (ev'.num # CloseNormal
                   /\ executionId # "" /\ reconnectAttempts < maxReconnectAttempts)
                  => \E t \in timers' \ timers : t.id = ev'.sock]_vars

\* a call has settled: its promise resolved or rejected
Settled == req.phase \in {"resolved", "rejected"}

\* the call failed with an ApiRequestError of status `code`
FailedWith(code) ==
    req.phase = "rejected" /\ req.outcome.kind = "error" /\ req.outcome.error.status = code

\* C13: when the timeout elapsed before the call settled, the transport call
\* was aborted exactly once and the call fails with status 408.
C13_TimeoutAbortsAndFails ==
    (req.elapsed /\ Settled) => (req.aborts = 1 /\ FailedWith(408))

\* C14: a call that received a non-2xx response fails with an
\* ApiRequestError whose status is the HTTP status code, whatever the body.
C14_FailureCarriesHttpStatus ==
    (Settled /\ req.http # 0 /\ ~ResponseOk(req.http)) => FailedWith(req.http)

\* C15: a call fails with status 0 only if no HTTP response was obtained: not
\* when the head of a response and its whole body have been received.
C15_StatusZeroMeansNoResponse ==
    FailedWith(0) => ~(req.http # 0 /\ req.read)

\* C16: a call whose fetch was rejected without a response, and not because
\* the timeout timer fired, fails with status 0, never 408.
C16_TransportFailureIsStatusZero ==
    (req.phase = "rejected" /\ req.http = 0 /\ req.timer # "fired") => FailedWith(0)

\* C17: every call issues exactly one fetch, whatever its outcome.
C17_OneFetchPerCall ==
    req.phase # "idle" => req.fetches = 1

\* a call that timed out, after one fetch
C17_Witness ==
    FailedWith(408) /\ req.timer = "fired" /\ req.fetches = 1

\* C18: when the empty body of a 2xx response has been read, the call
\* resolves with an empty object, whatever the method.
C18_EmptyBodyResolves ==
    [][(BodyArrives /\ ResponseOk(req.http) /\ req.body = "")
          => /\ req'.phase = "resolved"
             /\ req'.outcome.kind = "value"
             /\ req'.outcome.value = EmptyObject]_vars

\* a DELETE answered 204 without a body has resolved with an empty object
C18_Witness ==
    /\ req.phase = "resolved" /\ req.method = "DELETE"
    /\ req.http = 204 /\ req.body = ""
    /\ req.outcome.value = EmptyObject

\* get isConnected(): this.ws?.readyState === WebSocket.OPEN
IsConnected == ws # 0 /\ socks[ws].st = "open"

\* get currentExecutionId()
CurrentExecutionId == executionId

\* C19: right after disconnect() returns, in whatever state it was called, no
\* reconnect timer is pending, the socket held has been asked to close, the
\* execution id and the callbacks are cleared, the counter is at the maximum
\* and isConnected is false.
C19_DisconnectLeavesNothingPending ==
    [][ev'.op \in {"disconnect", "unmount"}
          => /\ timers' = {}
             /\ (ws # 0 /\ Live(ws)) => socks'[ws].st = "closing"
             /\ CurrentExecutionId' = ""
             /\ callbacks' = 0
             /\ reconnectAttempts' = maxReconnectAttempts
             /\ ~IsConnected']_vars

\* C20: whenever an execution_complete frame is routed, onExecutionComplete
\* is invoked and in the same event the socket is asked to close, the
\* execution id and the callbacks are cleared and the counter is forced to
\* the maximum (stated for an instance that has had one subscription only).
C20_CompleteTearsDown ==
    [][(nSubs' = 1 /\ ev'.op = "message" /\ ev'.frame.type = "execution_complete")
          => /\ ev'.calls = << <<"onExecutionComplete", ev'.frame.data>> >>
             /\ socks'[ev'.sock].st = "closing"
             /\ ws' = 0
             /\ executionId' = ""
             /\ callbacks' = 0
             /\ reconnectAttempts' = maxReconnectAttempts]_vars

\* C21: when onExecutionComplete throws while an execution_complete frame is
\* routed, the channel is disconnected all the same: the socket is asked to
\* close, the execution id is cleared and the counter is at the maximum.
C21_TeardownDespiteThrow ==
    [][(ev'.op = "message" /\ ev'.frame.type = "execution_complete" /\ done')
          => /\ socks'[ev'.sock].st \notin {"connecting", "open"}
             /\ executionId' = ""
             /\ reconnectAttempts' = maxReconnectAttempts]_vars

\* C22 as claimed: every socket error event moves the status to 'error' and
\* invokes onError with the generic message once, and changes nothing else.
C22_ErrorAlwaysNotifies ==
    [][ev'.op = "error"
          => /\ status' = "error"
             /\ ev'.calls = << <<"onConnectionChange", "error">>,
                               <<"onError", "WebSocket connection error">> >>
             /\ socks'[ev'.sock].st = socks[ev'.sock].st
             /\ UNCHANGED <<ws, executionId, callbacks, reconnectAttempts,
                            reconnectTimeout, timers>>]_vars

\* C22 as amended: a socket error event notifies the callback set the channel
\* holds, 'error' and then onError with the generic message, once each, or
\* nobody when no set is held, and changes nothing else: the socket keeps its
\* state, execution id, callbacks, counter and timers are untouched.
C22_ErrorNotifiesHeldCallbacks ==
    [][ev'.op = "error"
          => /\ ev'.cb = callbacks
             /\ IF callbacks # 0
                THEN /\ status' = "error"
                     /\ ev'.calls = << <<"onConnectionChange", "error">>,
                                       <<"onError", "WebSocket connection error">> >>
                ELSE /\ status' = status
                     /\ ev'.calls = <<>>
             /\ socks'[ev'.sock].st = socks[ev'.sock].st
             /\ UNCHANGED <<ws, executionId, callbacks, reconnectAttempts,
                            reconnectTimeout, timers>>]_vars

\* the error event of an open socket has been notified; the socket is still
\* open and the subscription still set
C22_Witness ==
    /\ ev.op = "error" /\ status = "error"
    /\ Len(ev.calls) = 2
    /\ socks[ev.sock].st = "open"
    /\ executionId # "" /\ reconnectAttempts = 0 /\ timers = {}

\* a frame that fails to parse, or parses to a value without the expected
\* shape
Malformed(frame) == ParseThrows(frame) \/ frame.data = Missing

\* C23: a malformed frame is dropped: it invokes no callback and changes no
\* connection state (sockets, status, execution id, callbacks, counter,
\* timers).
C23_MalformedFrameDropped ==
    [][(ev'.op = "message" /\ Malformed(ev'.frame))
          => /\ ev'.calls = <<>>
             /\ UNCHANGED <<ws, executionId, callbacks, reconnectAttempts,
                            reconnectTimeout, timers, socks, status>>]_vars

\* C24: routing a well-formed non-terminal frame leaves the channel state
\* unchanged; a step_complete frame invokes onStepComplete only, a server
\* error frame onError only, with the payload's message or 'Unknown error'
\* when it has none, and a frame of unknown type invokes nothing.
C24_NonTerminalFrameEffect ==
    [][(ev'.op = "message" /\ ev'.frame \in StreamFrames /\ ~ParseThrows(ev'.frame))
          => /\ UNCHANGED <<ws, executionId, callbacks, reconnectAttempts,
                            reconnectTimeout, timers, socks, status>>
             /\ ev'.cb = callbacks
             /\ ev'.calls =
                  IF callbacks = 0 \/ ev'.frame.type = "heartbeat" THEN <<>>
                  ELSE IF ev'.frame.type = "step_complete"
                  THEN << <<"onStepComplete", ev'.frame.data>> >>
                  ELSE << <<"onError", IF ev'.frame.data = "" THEN "Unknown error"
                                       ELSE ev'.frame.data>> >>]_vars

\* a server error frame without a message has invoked onError('Unknown
\* error') and the socket is still open
C24_Witness ==
    /\ ev.op = "message" /\ ev.frame.type = "error" /\ ev.frame.data = ""
    /\ ev.calls = << <<"onError", "Unknown error">> >>
    /\ socks[ev.sock].st = "open" /\ executionId # ""

\* C25: the reconnect counter stays within 0..3, is 0 right after connect()
\* and right after every socket open, and goes up by exactly one with every
\* timer a close sets and not otherwise on a close, timer or error event; a
\* close that follows an open, with the execution id set, sets the 2000 ms
\* timer.
C25_CounterDiscipline ==
    [][/\ reconnectAttempts' \in 0..maxReconnectAttempts
       /\ ev'.op \in {"connect", "open"} => reconnectAttempts' = 0
       /\ ev'.op = "close"
            => IF timers' # timers
               THEN /\ reconnectAttempts' = reconnectAttempts + 1
                    /\ Cardinality(timers' \ timers) = 1
               ELSE reconnectAttempts' = reconnectAttempts
       /\ ev'.op \in {"timer", "error"} => reconnectAttempts' = reconnectAttempts
       /\ (ev.op = "open" /\ ev'.op = "close" /\ executionId # "")
            => \E t \in timers' \ timers : t.delay = 2000]_vars

\* the socket of a reconnect attempt had opened and has closed: the close
\* has set the 2000 ms timer and the counter is 1 again
C25_Witness ==
    /\ nSubs = 1 /\ ev.op = "close" /\ ev.sock >= 2
    /\ reconnectAttempts = 1
    /\ \E t \in timers : t.id = ev.sock /\ t.n = 1 /\ t.delay = 2000

\* C26: once creating the socket has thrown for the execution id that is
\* set, the subscription makes no automatic progress: until connect() or
\* disconnect() is called no callback is invoked and no timer is set.
C26_NoProgressAfterThrow ==
    [][(executionId # "" /\ CtorThrows(executionId)
          /\ ev'.op \notin {"connect", "disconnect", "unmount"})
          => (ev'.calls = <<>> /\ timers' \subseteq timers)]_vars

\* C27: whenever the hook reports isConnected (its status is 'connected')
\* while it is mounted, the channel's isConnected is true: the socket held
\* is open.  Stated for a hook that has called connect() once, so that no
\* socket of an earlier subscription is involved.
C27_HookConnectedMeansSocketOpen ==
    (nSubs = 1 /\ status = "connected" /\ ev.op # "unmount") => IsConnected

\* C28: the hook's connect(id) empties its steps list, and every step
\* update that enters the list arrived on a socket of the execution passed
\* to the most recent connect(id); a step update that arrives on the socket
\* held while callbacks are registered enters the list, at its end.
C28_StepsOfCurrentExecution ==
    [][/\ ev'.op = "connect" => steps' = <<>>
       /\ (ev'.op = "message" /\ steps' # steps)
             => /\ socks[ev'.sock].exec = executionId
                /\ steps' = Append(steps, [step |-> ev'.frame.data,
                                           exec |-> executionId])
       /\ (ev'.op = "message" /\ ev'.sock = ws /\ callbacks # 0
             /\ Len(steps) < MaxSteps)
             => steps' = Append(steps, [step |-> ev'.frame.data,
                                        exec |-> executionId])
       /\ ev'.op \notin {"connect", "message"} => steps' = steps]_vars

\* C29: a call that has settled has either resolved with a value or been
\* rejected with an ApiRequestError, whatever was thrown inside (by fetch,
\* by parsing the error body or by parsing the success body), and its
\* timeout timer is not pending any more: it was cleared, or it had fired
\* before the call settled.
C29_SettlesOneWayTimerCleared ==
    /\ Settled =>
          /\ req.timer \in {"cleared", "fired"}
          /\ req.phase = "resolved" =>
                (req.outcome.kind = "value" /\ req.outcome.error = NoOutcome.error)
          /\ req.phase = "rejected" =>
                /\ req.outcome.kind = "error"
                /\ req.outcome.error.name = "ApiRequestError"
                /\ req.outcome.value = NoOutcome.value
    /\ ~Settled => req.outcome = NoOutcome

\* a 200 response whose body is not JSON: the SyntaxError of JSON.parse is
\* turned into an ApiRequestError, the timer having been cleared
C29_Witness ==
    /\ req.phase = "rejected"
    /\ req.http = 200
    /\ req.read
    /\ ~JsonParse(req.body).ok
    /\ req.outcome.error = ApiRequestError("Unexpected token in JSON", 0, Undefined)
    /\ req.timer = "cleared"

\* C30: a handleExecute run that passes the test case id kept in
\* savedTestCaseId to executeTestMutation passes the id of a test case that
\* was saved with the script shown at that moment.
C30_SavedIdIsOfDisplayedScript ==
    (view.sub.id # 0 /\ view.sub.reused)
        => view.cases[view.sub.id] = view.sub.shown

====
